---- MODULE Spec2Model ----
(***************************************************************************)
(* FlexBase: the route handlers of src/routes/users.js,                    *)
(* src/routes/posts.js, src/routes/views.js and the collection routes,     *)
(* over the User, Post and UserCollection records they read and write.     *)
(*                                                                         *)
(* Every handler is one action.  A request's answer is recorded in `last`  *)
(* and the real-time events it emitted, in order, in `emitted`.            *)
(***************************************************************************)
EXTENDS Integers, Sequences, FiniteSets, TLC

(* ------------------------------ bounds --------------------------------- *)

\* How many posts may ever be created (identifiers 1..MaxPosts).
MaxPosts == 1

\* How many storage write failures may happen in one behaviour.
MaxFail == 1

(* ------------------------------ values --------------------------------- *)

UserIds == {"alice", "bob", "carol"}

\* A well-formed user identifier that names no stored user.
Ghost == "ghost"

\* The request carries no (valid) credential.
Anonymous == "anonymous"

\* How many collections may ever be created (identifiers 1..MaxColls).
MaxColls == 2

\* How many comments a post may collect.
MaxComments == 1

\* How long a followers or following list may be when an overlapping follow
\* toggle starts on it.
MaxFollows == 2

PostIds == 1..MaxPosts

CollIds == 1..MaxColls

NoPost == [exists |-> FALSE]

NoColl == [exists |-> FALSE]

\* No identifier: an absent reference, an absent request field.
None == 0

Visibilities == {"public", "private", "followers"}

\* The requests the server may be handling at one time.
Slots == {"r1", "r2"}

\* A slot that handles no request.
Idle == [busy |-> FALSE]

\* The socket.io sessions a behaviour may open.
SocketIds == {"s1", "s2"}

\* A session that is not connected: it is in no room.
NoSocket == [connected |-> FALSE]

VARIABLES
  users,     \* the User records: id -> [followers, following] (arrays of ids)
  posts,     \* the Post records: id -> a post, or NoPost
  nextPost,  \* how many posts were created so far; the next identifier is +1
  collections, \* the UserCollection records: id -> a collection, or NoColl
  nextColl,  \* how many collections were created so far
  failures,  \* how many storage writes failed so far
  last,      \* the last request and the answer it got
  emitted,   \* the real-time events the last request emitted, in order
  inflight,  \* the requests that have read their records and not yet saved
  sockets,   \* the socket.io sessions: id -> a session with its rooms, or NoSocket
  acked      \* the comments whose add-comment was answered 201, in answer order

vars ==
  <<users, posts, nextPost, collections, nextColl, failures, last, emitted, inflight,
    sockets, acked>>

(* ------------------------------ helpers -------------------------------- *)

\* Array.prototype.includes on an array of identifiers.
Includes(arr, id) == \E i \in 1..Len(arr) : arr[i] = id

\* Array.prototype.filter(x => x !== id): every occurrence goes, order stays.
Without(arr, id) == SelectSeq(arr, LAMBDA x : x # id)

Range(arr) == {arr[i] : i \in 1..Len(arr)}

Min(a, b) == IF a < b THEN a ELSE b

\* .sort({ createdAt: -1 }): identifiers are handed out in creation order, so
\* the newest post has the largest identifier.
RECURSIVE NewestFirst(_)
NewestFirst(S) ==
  IF S = {} THEN <<>>
  ELSE LET newest == CHOOSE p \in S : \A q \in S : q <= p
       IN <<newest>> \o NewestFirst(S \ {newest})

\* .skip(skip).limit(limit)
Page(seq, skip, limit) == SubSeq(seq, skip + 1, Min(Len(seq), skip + limit))

\* parseInt(req.query.page) || 1, and the like for limit: None is an absent
\* parameter.
OrDefault(param, default) == IF param = None THEN default ELSE param

StoredPosts == {p \in PostIds : posts[p].exists}

\* The answer of a request, before the handler fills in what it returns.
Resp(op, actor, id, status) ==
  [op |-> op, actor |-> actor, id |-> id, status |-> status,
   flag |-> FALSE, count |-> 0, posts |-> <<>>, filter |-> {},
   \* what the request met, kept for the properties: pre is the part of the
   \* state or of the request they need, again whether the request before
   \* this one was the same successful toggle, pre0 that request's pre
   pre |-> <<>>, again |-> FALSE, pre0 |-> <<>>,
   \* what the error handler sent, when it is the one that answered
   body |-> <<>>,
   \* whose save landed between this request's read and its own save
   \* (Anonymous: nobody's)
   over |-> Anonymous]

\* socket.io: req.io.to(room).emit(event, payload).  Of the payload the
\* record keeps the type, the acting user and the post; count and comment
\* are the total and the comment a post_comment event carries.
Event(room, name, type, userId, postId) ==
  [room |-> room, event |-> name, type |-> type, userId |-> userId, postId |-> postId,
   count |-> 0, comment |-> <<>>]

UserRoom(id) == <<"user", id>>
PostRoom(id) == <<"post", id>>

\* The auth middleware: the credential names a stored user, or the request
\* is rejected with 401.
Authenticated(actor) == actor \in DOMAIN users

(* --------------------------- POST /api/users/:id/follow ---------------- *)

\* currentUser.following after the toggle.
followingAfter(following, target, isFollowing) ==
  IF isFollowing THEN Without(following, target) ELSE Append(following, target)

\* A toggle that forgets the target's side of an unfollow.
followersAfterKeeps(followers, actor, isFollowing) ==
  IF isFollowing THEN followers ELSE Append(followers, actor)

\* userToFollow.followers after the toggle.
followersAfter(followers, actor, isFollowing) ==
  IF isFollowing THEN Without(followers, actor) ELSE Append(followers, actor)

\* A notification on every toggle, the unfollow included.
FollowEventsAlways(actor, target, isFollowing) ==
  <<Event(UserRoom(target), "notification", "follow", actor, None)>>

\* The follow branch emits the notification; the unfollow branch emits none.
FollowEvents(actor, target, isFollowing) ==
  IF isFollowing THEN <<>>
  ELSE <<Event(UserRoom(target), "notification", "follow", actor, None)>>

\* A toggle without the self-follow check.
IsSelfUnchecked(actor, id) == FALSE

\* userToFollow._id.toString() === req.user._id.toString()
IsSelf(actor, id) == id = actor

\* Both saves succeed.
FollowToggle(actor, id) ==
  /\ UNCHANGED <<sockets, acked, inflight, posts, nextPost, collections, nextColl, failures>>
  /\ IF ~Authenticated(actor)
     THEN /\ last' = Resp("follow", actor, id, 401)
          /\ emitted' = <<>>
          /\ UNCHANGED users
     ELSE IF id \notin DOMAIN users
     THEN /\ last' = Resp("follow", actor, id, 404)
          /\ emitted' = <<>>
          /\ UNCHANGED users
     ELSE IF IsSelf(actor, id)
     THEN /\ last' = Resp("follow", actor, id, 400)
          /\ emitted' = <<>>
          /\ UNCHANGED users
     ELSE LET isFollowing == Includes(users[actor].following, id)
              newFollowing == followingAfter(users[actor].following, id, isFollowing)
              newFollowers == followersAfter(users[id].followers, actor, isFollowing)
          IN /\ users' = [users EXCEPT ![actor].following = newFollowing,
                                       ![id].followers = newFollowers]
             /\ emitted' = FollowEvents(actor, id, isFollowing)
             /\ last' = [Resp("follow", actor, id, 200) EXCEPT
                           !.flag = ~isFollowing, !.count = Len(newFollowers),
                           !.pre = users[actor].following]

\* Promise.all([currentUser.save(), userToFollow.save()]) with a save that the
\* store rejects: the other save is an independent write and still lands; the
\* request ends in the error handler (500).  The follow notification was
\* emitted before the saves.
FollowToggleSaveFails(actor, id, failed) ==
  /\ Authenticated(actor)
  /\ id \in DOMAIN users
  /\ ~IsSelf(actor, id)
  /\ failures < MaxFail
  /\ failures' = failures + 1
  /\ UNCHANGED <<sockets, acked, inflight, posts, nextPost, collections, nextColl>>
  /\ LET isFollowing == Includes(users[actor].following, id)
         newFollowing == followingAfter(users[actor].following, id, isFollowing)
         newFollowers == followersAfter(users[id].followers, actor, isFollowing)
     IN /\ users' = [users EXCEPT
                       ![actor].following =
                          IF "currentUser" \in failed THEN @ ELSE newFollowing,
                       ![id].followers =
                          IF "userToFollow" \in failed THEN @ ELSE newFollowers]
        /\ emitted' = FollowEvents(actor, id, isFollowing)
        /\ last' = [Resp("follow", actor, id, 500) EXCEPT
                      !.pre = users[actor].following]

FailedSaves == {{"currentUser"}, {"userToFollow"}, {"currentUser", "userToFollow"}}

\* The same route with its awaits apart: User.findById of the target, then
\* of the acting user, then the two saves of Promise.all, which the store
\* receives in either order, and other requests in between.
\*
\* FollowReadTarget is the handler up to the first read.  The 401, 404 and
\* 400 answers need no further step and are FollowToggle's.
FollowReadTarget(r, actor, id) ==
  /\ ~inflight[r].busy
  /\ Authenticated(actor)
  /\ id \in DOMAIN users
  /\ ~IsSelf(actor, id)
  /\ Len(users[id].followers) < MaxFollows
  /\ Len(users[actor].following) < MaxFollows
  /\ inflight' = [inflight EXCEPT ![r] =
                    [busy |-> TRUE, op |-> "follow", actor |-> actor, id |-> id,
                     pc |-> "findCurrent",
                     followers |-> users[id].followers, following |-> <<>>,
                     stale |-> {}, pending |-> {}, failed |-> FALSE]]
  /\ UNCHANGED <<users, posts, nextPost, collections, nextColl, failures, last, emitted,
                 sockets, acked>>

\* The second read, the branch taken on it, the change of the two copies and
\* the notification of the follow branch; the two saves are started.
FollowReadCurrent(r) ==
  /\ inflight[r].busy
  /\ inflight[r].op = "follow"
  /\ inflight[r].pc = "findCurrent"
  /\ inflight' = [inflight EXCEPT ![r].pc = "save",
                                  ![r].following = users[inflight[r].actor].following,
                                  ![r].pending = {"currentUser", "userToFollow"}]
  /\ emitted' = FollowEvents(inflight[r].actor, inflight[r].id,
                             Includes(users[inflight[r].actor].following, inflight[r].id))
  /\ UNCHANGED <<users, posts, nextPost, collections, nextColl, failures, last,
                 sockets, acked>>

\* A user record was written: the copies of it other follow requests hold
\* are stale from then on.  A request holds the target's record from its
\* first read and its own user's from the second.
OutdatedUser(slots, r, u) ==
  [q \in Slots |->
     IF q = r \/ ~slots[q].busy \/ slots[q].op # "follow" THEN slots[q]
     ELSE [slots[q] EXCEPT !.stale =
             @ \cup (IF slots[q].id = u THEN {"userToFollow"} ELSE {})
               \cup (IF slots[q].actor = u /\ slots[q].pc = "save"
                     THEN {"currentUser"} ELSE {})]]

\* The request of slot r after one of its saves: answered when both are done,
\* 200 if both were stored and 500 (error handler) if one was refused.
FollowSaved(slots, r, which, refused) ==
  IF slots[r].pending = {which}
  THEN [slots EXCEPT ![r] = Idle]
  ELSE [slots EXCEPT ![r].pending = @ \ {which}, ![r].failed = @ \/ refused]

\* One of the two saves reaches the store.  Mongoose writes the change of
\* the copy: the push of the follow branch as a $push onto the stored array,
\* the filtered array of the unfollow branch as a $set guarded by the version
\* the copy was read at (VersionError when the record was written since), and
\* nothing at all when the filter removed nothing.
FollowSave(r, which) ==
  /\ inflight[r].busy
  /\ inflight[r].op = "follow"
  /\ inflight[r].pc = "save"
  /\ which \in inflight[r].pending
  /\ UNCHANGED <<posts, nextPost, collections, nextColl, failures, emitted, sockets, acked>>
  /\ LET actor == inflight[r].actor
         id == inflight[r].id
         isFollowing == Includes(inflight[r].following, id)
         doc == IF which = "currentUser" THEN actor ELSE id
         copy == IF which = "currentUser" THEN inflight[r].following
                 ELSE inflight[r].followers
         stored == IF which = "currentUser" THEN users[actor].following
                   ELSE users[id].followers
         item == IF which = "currentUser" THEN id ELSE actor
         unchanged == isFollowing /\ Without(copy, item) = copy
         refused == isFollowing /\ ~unchanged /\ which \in inflight[r].stale
         written == IF isFollowing THEN Without(copy, item) ELSE Append(stored, item)
         done == inflight[r].pending = {which}
         status == IF inflight[r].failed \/ refused THEN 500 ELSE 200
     IN /\ IF refused \/ unchanged
           THEN /\ UNCHANGED users
                /\ inflight' = FollowSaved(inflight, r, which, refused)
           ELSE /\ users' = IF which = "currentUser"
                             THEN [users EXCEPT ![actor].following = written]
                             ELSE [users EXCEPT ![id].followers = written]
                /\ inflight' = FollowSaved(OutdatedUser(inflight, r, doc), r, which, FALSE)
        /\ last' = IF done
                   THEN [Resp("follow", actor, id, status) EXCEPT
                           !.flag = ~isFollowing,
                           !.count = Len(followersAfter(inflight[r].followers, actor,
                                                        isFollowing)),
                           !.pre = inflight[r].following]
                   ELSE last

(* ------------------------------ POST /api/posts ------------------------ *)

\* The fields of a create-post request.  caption is the caption's length,
\* file whether multer stored a media file, tags the tags (each a name with
\* a type, NoType when the tag has none), tagsIsArray whether the tags field
\* is an array, userCollection the target collection (None when absent,
\* negative when it is no well-formed identifier), visibility the label
\* (Absent when the field is missing).
PostBody(caption, file, tags, tagsIsArray, coll, vis) ==
  [caption |-> caption, file |-> file, tags |-> tags, tagsIsArray |-> tagsIsArray,
   userCollection |-> coll, visibility |-> vis]

Absent == ""

NoType == ""

MaxCaption == 1000

\* body('caption').notEmpty().isLength({ max: 1000 }), body('tags')
\* .optional().isArray(), body('userCollection').optional().isMongoId()
CreatePostValid(body) ==
  /\ body.caption > 0
  /\ body.caption <= MaxCaption
  /\ body.tagsIsArray
  /\ body.userCollection >= None

TagTypes == {"brand", "category", "year", "rarity", "color", "size"}

\* tags.map(tag => ({ name: tag.name, type: tag.type || 'general' }))
ProcessTags(tags) ==
  [i \in 1..Len(tags) |->
     [name |-> tags[i].name,
      type |-> IF tags[i].type = NoType THEN "general" ELSE tags[i].type]]

\* visibility: visibility || 'public'
VisibilityOf(body) ==
  IF body.visibility = Absent THEN "public" ELSE body.visibility

\* postSchema's validators, run by post.save(): the enums of tags.type and
\* of visibility.
PostSchemaValid(post) ==
  /\ \A i \in 1..Len(post.tags) : post.tags[i].type \in TagTypes
  /\ post.visibility \in Visibilities

\* A lookup by identifier alone: UserCollection.findById(userCollection).
OwnedCollectionAnyOwner(coll, actor) ==
  /\ coll \in CollIds
  /\ collections[coll].exists

\* UserCollection.findOne({ _id: userCollection, user: req.user._id })
OwnedCollection(coll, actor) ==
  /\ coll \in CollIds
  /\ collections[coll].exists
  /\ collections[coll].user = actor

\* new_post to a follower too few: the loop starts at the second follower.
NewPostEventsSkipFirst(followers, actor, post) ==
  [i \in 1..(Len(followers) - 1) |->
     Event(UserRoom(followers[i + 1]), "new_post", "new_post", actor, post)]

\* followers.forEach(followerId => req.io.to(`user_${followerId}`).emit('new_post', ...))
NewPostEvents(followers, actor, post) ==
  [i \in 1..Len(followers) |->
     Event(UserRoom(followers[i]), "new_post", "new_post", actor, post)]

CreatePost(actor, body) ==
  /\ UNCHANGED <<sockets, acked, inflight, users, nextColl, failures>>
  /\ IF ~Authenticated(actor)
     THEN /\ last' = [Resp("createPost", actor, None, 401) EXCEPT !.pre = body]
          /\ emitted' = <<>>
          /\ UNCHANGED <<posts, nextPost, collections>>
     ELSE IF ~CreatePostValid(body) \/ ~body.file
     THEN /\ last' = [Resp("createPost", actor, None, 400) EXCEPT !.pre = body]
          /\ emitted' = <<>>
          /\ UNCHANGED <<posts, nextPost, collections>>
     ELSE IF body.userCollection # None /\ ~OwnedCollection(body.userCollection, actor)
     THEN /\ last' = [Resp("createPost", actor, None, 404) EXCEPT !.pre = body]
          /\ emitted' = <<>>
          /\ UNCHANGED <<posts, nextPost, collections>>
     ELSE LET id == nextPost + 1
              post == [exists |-> TRUE, user |-> actor,
                       tags |-> ProcessTags(body.tags),
                       likes |-> <<>>, comments |-> <<>>,
                       userCollection |-> body.userCollection,
                       visibility |-> VisibilityOf(body)]
          IN IF ~PostSchemaValid(post)
             THEN \* ValidationError from post.save(), answered by the error handler
                  /\ last' = [Resp("createPost", actor, None, 400) EXCEPT !.pre = body]
                  /\ emitted' = <<>>
                  /\ UNCHANGED <<posts, nextPost, collections>>
             ELSE /\ nextPost < MaxPosts
                  /\ nextPost' = id
                  /\ posts' = [posts EXCEPT ![id] = post]
                  /\ collections' =
                       IF body.userCollection # None
                       THEN [collections EXCEPT
                               ![body.userCollection].items = Append(@, id)]
                       ELSE collections
                  /\ emitted' = NewPostEvents(users[actor].followers, actor, id)
                  /\ last' = [Resp("createPost", actor, id, 201) EXCEPT !.pre = body]

(* ------------------------------ POST /api/posts/:id/like --------------- *)

\* post.likes.findIndex(like => like.user.toString() === req.user._id.toString()):
\* the first index holding the user, 0 when there is none (the code's -1).
LikeIndex(likes, user) ==
  IF Includes(likes, user)
  THEN CHOOSE i \in 1..Len(likes) :
         /\ likes[i] = user
         /\ \A j \in 1..(i - 1) : likes[j] # user
  ELSE 0

\* A splice one place too far: splice(likeIndex + 1, 1).
SpliceOffByOne(arr, i) == SubSeq(arr, 1, i) \o SubSeq(arr, i + 2, Len(arr))

\* splice(likeIndex, 1)
Splice(arr, i) == SubSeq(arr, 1, i - 1) \o SubSeq(arr, i + 1, Len(arr))

\* post.likes after the toggle.
ToggledLikes(likes, user) ==
  IF LikeIndex(likes, user) > 0
  THEN Splice(likes, LikeIndex(likes, user))
  ELSE Append(likes, user)

\* A notification on every toggle by another user, unlike included.
NotifyLikeAlways(owner, actor, isLiked) == owner # actor

\* post.user.toString() !== req.user._id.toString() && isLiked
NotifyLike(owner, actor, isLiked) == owner # actor /\ isLiked

\* The events of a toggle: post_like to the post's room, then the like
\* notification to the owner's room.
LikeEvents(post, owner, actor, isLiked) ==
  <<Event(PostRoom(post), "post_like", "post_like", actor, post)>>
  \o (IF NotifyLike(owner, actor, isLiked)
      THEN <<Event(UserRoom(owner), "notification", "like", actor, post)>>
      ELSE <<>>)

\* The request before this one was a successful toggle by the same user on
\* the same post.
SameToggle(actor, id) ==
  /\ last.op = "like"
  /\ last.status = 200
  /\ last.actor = actor
  /\ last.id = id

ToggleLike(actor, id) ==
  /\ UNCHANGED <<sockets, acked, inflight, users, nextPost, collections, nextColl, failures>>
  /\ IF ~Authenticated(actor)
     THEN /\ last' = Resp("like", actor, id, 401)
          /\ emitted' = <<>>
          /\ UNCHANGED posts
     ELSE IF ~posts[id].exists
     THEN /\ last' = Resp("like", actor, id, 404)
          /\ emitted' = <<>>
          /\ UNCHANGED posts
     ELSE LET isLiked == LikeIndex(posts[id].likes, actor) = 0
              likes == ToggledLikes(posts[id].likes, actor)
          IN /\ posts' = [posts EXCEPT ![id].likes = likes]
             /\ emitted' = LikeEvents(id, posts[id].user, actor, isLiked)
             /\ last' = [Resp("like", actor, id, 200) EXCEPT
                           !.flag = isLiked, !.count = Len(likes),
                           !.pre = posts[id].likes,
                           !.again = SameToggle(actor, id),
                           !.pre0 = IF SameToggle(actor, id) THEN last.pre ELSE <<>>]

\* The same route with its two awaits apart: Post.findById, then post.save(),
\* and other requests in between.
\*
\* LikeRead is the handler up to the read: the request holds its own copy of
\* the post.  The 401 and 404 answers need no second step and are
\* ToggleLike's.
LikeRead(r, actor, id) ==
  /\ ~inflight[r].busy
  /\ Authenticated(actor)
  /\ posts[id].exists
  /\ inflight' = [inflight EXCEPT ![r] =
                    [busy |-> TRUE, op |-> "like", actor |-> actor, id |-> id,
                     likes |-> posts[id].likes, stale |-> FALSE, by |-> Anonymous]]
  /\ UNCHANGED <<users, posts, nextPost, collections, nextColl, failures, last, emitted,
                 sockets, acked>>

\* A save that writes the whole copy back, whatever the store holds by then.
SavedLikesWholeRecord(stored, copy, user) == ToggledLikes(copy, user)

\* What post.save() writes.  Mongoose sends the changes of the copy, not the
\* copy: likes.push(...) goes out as a $push of the new entry, which the
\* store appends to the array it holds now; likes.splice(...) goes out as a
\* $set of the whole array, guarded by the version the copy was read at.
SavedLikes(stored, copy, user) ==
  IF LikeIndex(copy, user) > 0
  THEN Splice(copy, LikeIndex(copy, user))
  ELSE Append(stored, user)

\* Every array write advances the post's version: the copies other requests
\* hold of that post are stale from then on (by: whose write it was).
Outdated(slots, r, id) ==
  [q \in Slots |->
     IF q = r THEN Idle
     ELSE IF slots[q].busy /\ slots[q].id = id
     THEN [slots[q] EXCEPT !.stale = TRUE, !.by = slots[r].actor]
     ELSE slots[q]]

\* LikeSave is the rest of the handler: the change of the copy, the save,
\* the events and the answer.  The guarded $set of a stale copy is refused
\* (VersionError), as is the save of a post deleted meanwhile; both end in
\* the error handler with nothing emitted.
LikeSave(r) ==
  /\ inflight[r].busy
  /\ inflight[r].op = "like"
  /\ UNCHANGED <<users, nextPost, collections, nextColl, failures, sockets, acked>>
  /\ LET actor == inflight[r].actor
         id == inflight[r].id
         copy == inflight[r].likes
         isLiked == LikeIndex(copy, actor) = 0
     IN IF ~posts[id].exists \/ (~isLiked /\ inflight[r].stale)
        THEN /\ last' = [Resp("like", actor, id, 500) EXCEPT !.pre = copy]
             /\ emitted' = <<>>
             /\ inflight' = [inflight EXCEPT ![r] = Idle]
             /\ UNCHANGED posts
        ELSE /\ posts' = [posts EXCEPT
                            ![id].likes = SavedLikes(posts[id].likes, copy, actor)]
             /\ inflight' = Outdated(inflight, r, id)
             /\ emitted' = LikeEvents(id, posts[id].user, actor, isLiked)
             /\ last' = [Resp("like", actor, id, 200) EXCEPT
                           !.flag = isLiked,
                           !.count = Len(ToggledLikes(copy, actor)),
                           !.pre = copy,
                           !.over = inflight[r].by]

(* ------------------------------ POST /api/posts/:id/comment ------------ *)

MaxCommentText == 500

\* A validator that takes its own message at its word: "less than 500".
CommentValidStrict(text) == text > 0 /\ text < MaxCommentText

\* body('text').notEmpty().isLength({ max: 500 }); text is the text's length.
CommentValid(text) == text > 0 /\ text <= MaxCommentText

\* postSchema.comments.text: { required: true, maxlength: 500 }
CommentSchemaValid(text) == text > 0 /\ text <= MaxCommentText

\* The comment texts a request may carry, by length.
CommentTexts == {0, 1, MaxCommentText, MaxCommentText + 1}

\* A notification for every comment, the owner's own included.
NotifyCommentAlways(owner, actor) == TRUE

\* post.user.toString() !== req.user._id.toString()
NotifyComment(owner, actor) == owner # actor

\* The events of an added comment: post_comment to the post's room, with the
\* last comment of the saved list and the list's length, then the comment
\* notification to the owner's room.
CommentEvents(post, owner, actor, comments) ==
  <<[Event(PostRoom(post), "post_comment", "post_comment", actor, post) EXCEPT
       !.count = Len(comments), !.comment = <<comments[Len(comments)]>>]>>
  \o (IF NotifyComment(owner, actor)
      THEN <<Event(UserRoom(owner), "notification", "comment", actor, post)>>
      ELSE <<>>)

AddComment(actor, id, text) ==
  /\ UNCHANGED <<sockets, acked, inflight, users, nextPost, collections, nextColl, failures>>
  /\ IF ~Authenticated(actor)
     THEN /\ last' = [Resp("comment", actor, id, 401) EXCEPT !.pre = text]
          /\ emitted' = <<>>
          /\ UNCHANGED posts
     ELSE IF ~CommentValid(text)
     THEN /\ last' = [Resp("comment", actor, id, 400) EXCEPT !.pre = text]
          /\ emitted' = <<>>
          /\ UNCHANGED posts
     ELSE IF ~posts[id].exists
     THEN /\ last' = [Resp("comment", actor, id, 404) EXCEPT !.pre = text]
          /\ emitted' = <<>>
          /\ UNCHANGED posts
     ELSE IF ~CommentSchemaValid(text)
     THEN \* ValidationError from post.save(), answered by the error handler
          /\ last' = [Resp("comment", actor, id, 400) EXCEPT !.pre = text]
          /\ emitted' = <<>>
          /\ UNCHANGED posts
     ELSE LET comments == Append(posts[id].comments, [user |-> actor, text |-> text])
          IN /\ Len(posts[id].comments) < MaxComments
             /\ posts' = [posts EXCEPT ![id].comments = comments]
             /\ emitted' = CommentEvents(id, posts[id].user, actor, comments)
             /\ last' = [Resp("comment", actor, id, 201) EXCEPT
                           !.count = Len(comments), !.pre = text]

\* The same route with its awaits apart: Post.findById, post.save(), then
\* post.populate(...) before the events and the answer, and other requests
\* in between.
\*
\* CommentRead is the handler up to the read, with a text the validators
\* and the schema accept.  The 401, 400 and 404 answers need no further step
\* and are AddComment's.
CommentRead(r, actor, id, text) ==
  /\ ~inflight[r].busy
  /\ Authenticated(actor)
  /\ CommentValid(text)
  /\ posts[id].exists
  /\ CommentSchemaValid(text)
  /\ Len(posts[id].comments) < MaxComments
  /\ inflight' = [inflight EXCEPT ![r] =
                    [busy |-> TRUE, op |-> "comment", actor |-> actor, id |-> id,
                     pc |-> "save", text |-> text, owner |-> posts[id].user,
                     comments |-> posts[id].comments,
                     stale |-> FALSE, by |-> Anonymous]]
  /\ UNCHANGED <<users, posts, nextPost, collections, nextColl, failures, last, emitted,
                 sockets, acked>>

\* The copies other requests hold of post id are stale after a write of
\* slot r, which goes on to its next step.
OutdatedOthers(slots, r, id) ==
  [q \in Slots |->
     IF q # r /\ slots[q].busy /\ slots[q].id = id
     THEN [slots[q] EXCEPT !.stale = TRUE, !.by = slots[r].actor]
     ELSE slots[q]]

\* comments.push(newComment) and post.save(): the push goes out as a $push
\* of the new comment, which the store appends to the list it holds now; the
\* request's own copy has the comment after the comments it had read.  The
\* save of a post deleted meanwhile is refused (error handler, 500).
CommentSave(r) ==
  /\ inflight[r].busy
  /\ inflight[r].op = "comment"
  /\ inflight[r].pc = "save"
  /\ UNCHANGED <<users, nextPost, collections, nextColl, failures, sockets, acked>>
  /\ LET actor == inflight[r].actor
         id == inflight[r].id
         newComment == [user |-> actor, text |-> inflight[r].text]
     IN IF ~posts[id].exists
        THEN /\ last' = [Resp("comment", actor, id, 500) EXCEPT !.pre = inflight[r].text]
             /\ emitted' = <<>>
             /\ inflight' = [inflight EXCEPT ![r] = Idle]
             /\ UNCHANGED posts
        ELSE /\ posts' = [posts EXCEPT ![id].comments = Append(@, newComment)]
             /\ inflight' = [OutdatedOthers(inflight, r, id) EXCEPT
                               ![r].pc = "populate",
                               ![r].comments = Append(@, newComment)]
             /\ UNCHANGED <<last, emitted>>

\* After post.populate(...): the events and the 201 answer, from the
\* request's own copy of the post.  acked records the acknowledgement.
CommentAnswer(r) ==
  /\ inflight[r].busy
  /\ inflight[r].op = "comment"
  /\ inflight[r].pc = "populate"
  /\ UNCHANGED <<users, posts, nextPost, collections, nextColl, failures, sockets>>
  /\ emitted' = CommentEvents(inflight[r].id, inflight[r].owner, inflight[r].actor,
                              inflight[r].comments)
  /\ last' = [Resp("comment", inflight[r].actor, inflight[r].id, 201) EXCEPT
                !.count = Len(inflight[r].comments), !.pre = inflight[r].text]
  /\ acked' = Append(acked, [post |-> inflight[r].id, user |-> inflight[r].actor,
                             text |-> inflight[r].text])
  /\ inflight' = [inflight EXCEPT ![r] = Idle]

(* ------------------------------ DELETE /api/posts/:id ------------------ *)

\* UserCollection.findByIdAndUpdate(id, { $pull: { items: post } }): nothing
\* happens when no collection has that identifier.
PullItem(colls, id, post) ==
  IF id \in CollIds /\ colls[id].exists
  THEN [colls EXCEPT ![id].items = Without(@, post)]
  ELSE colls

DeletePost(actor, id) ==
  /\ UNCHANGED <<sockets, acked, inflight, users, nextPost, nextColl, failures>>
  /\ emitted' = <<>>
  /\ IF ~Authenticated(actor)
     THEN /\ last' = Resp("deletePost", actor, id, 401)
          /\ UNCHANGED <<posts, collections>>
     ELSE IF ~posts[id].exists
     THEN /\ last' = Resp("deletePost", actor, id, 404)
          /\ UNCHANGED <<posts, collections>>
     ELSE IF posts[id].user # actor
     THEN /\ last' = Resp("deletePost", actor, id, 403)
          /\ UNCHANGED <<posts, collections>>
     ELSE /\ collections' =
               IF posts[id].userCollection # None
               THEN PullItem(collections, posts[id].userCollection, id)
               ELSE collections
          /\ posts' = [posts EXCEPT ![id] = NoPost]
          /\ last' = Resp("deletePost", actor, id, 200)

(* ------------------------------ /api/collections ----------------------- *)

Categories == {"sneakers", "watches", "luxury", "art", "cars", "jewelry", "other"}

MaxCollectionName == 50

MaxDescription == 200

\* The fields of a create-collection request: the lengths of name and
\* description, and the category.
CollectionBody(name, category, description) ==
  [name |-> name, category |-> category, description |-> description]

\* body('name').notEmpty().isLength({ max: 50 }), body('category').isIn([...]),
\* body('description').optional().isLength({ max: 200 })
CreateCollectionValid(body) ==
  /\ body.name > 0
  /\ body.name <= MaxCollectionName
  /\ body.category \in Categories
  /\ body.description <= MaxDescription

\* POST /api/collections.  Of a collection the state keeps the owner and the
\* items; name, description, category and privacy flag are read by none of
\* the handlers modelled here.
CreateCollection(actor, body) ==
  /\ UNCHANGED <<sockets, acked, inflight, users, posts, nextPost, failures>>
  /\ emitted' = <<>>
  /\ IF ~Authenticated(actor)
     THEN /\ last' = Resp("createCollection", actor, None, 401)
          /\ UNCHANGED <<collections, nextColl>>
     ELSE IF ~CreateCollectionValid(body)
     THEN /\ last' = Resp("createCollection", actor, None, 400)
          /\ UNCHANGED <<collections, nextColl>>
     ELSE /\ nextColl < MaxColls
          /\ nextColl' = nextColl + 1
          /\ collections' = [collections EXCEPT ![nextColl + 1] =
                               [exists |-> TRUE, user |-> actor, items |-> <<>>]]
          /\ last' = Resp("createCollection", actor, nextColl + 1, 201)

\* A cascading delete: Post.deleteMany({ userCollection: collection._id }).
UnsetCollectionCascades(ps, id) ==
  [p \in PostIds |->
     IF ps[p].exists /\ ps[p].userCollection = id THEN NoPost ELSE ps[p]]

\* Post.updateMany({ userCollection: collection._id }, { $unset: { userCollection: 1 } })
UnsetCollection(ps, id) ==
  [p \in PostIds |->
     IF ps[p].exists /\ ps[p].userCollection = id
     THEN [ps[p] EXCEPT !.userCollection = None]
     ELSE ps[p]]

\* The posts whose collection reference is the collection.
Referencing(id) ==
  {p \in PostIds : posts[p].exists /\ posts[p].userCollection = id}

\* DELETE /api/collections/:id
DeleteCollection(actor, id) ==
  /\ UNCHANGED <<sockets, acked, inflight, users, nextPost, nextColl, failures>>
  /\ emitted' = <<>>
  /\ IF ~Authenticated(actor)
     THEN /\ last' = Resp("deleteCollection", actor, id, 401)
          /\ UNCHANGED <<posts, collections>>
     ELSE IF ~collections[id].exists
     THEN /\ last' = Resp("deleteCollection", actor, id, 404)
          /\ UNCHANGED <<posts, collections>>
     ELSE IF collections[id].user # actor
     THEN /\ last' = Resp("deleteCollection", actor, id, 403)
          /\ UNCHANGED <<posts, collections>>
     ELSE /\ posts' = UnsetCollection(posts, id)
          /\ collections' = [collections EXCEPT ![id] = NoColl]
          /\ last' = [Resp("deleteCollection", actor, id, 200) EXCEPT
                        !.pre = NewestFirst(Referencing(id))]

\* An add that never finds the post in the collection.
AlreadyInCollectionNever(items, post) == FALSE

\* collection.items.includes(post._id)
AlreadyInCollection(items, post) == Includes(items, post)

\* POST /api/collections/:id/add-post
AddPostToCollection(actor, id, post) ==
  /\ UNCHANGED <<sockets, acked, inflight, users, nextPost, nextColl, failures>>
  /\ emitted' = <<>>
  /\ IF ~Authenticated(actor)
     THEN /\ last' = [Resp("addPost", actor, id, 401) EXCEPT !.pre = post]
          /\ UNCHANGED <<posts, collections>>
     ELSE IF post < None
     THEN \* body('postId').isMongoId()
          /\ last' = [Resp("addPost", actor, id, 400) EXCEPT !.pre = post]
          /\ UNCHANGED <<posts, collections>>
     ELSE IF ~collections[id].exists \/ ~posts[post].exists
     THEN /\ last' = [Resp("addPost", actor, id, 404) EXCEPT !.pre = post]
          /\ UNCHANGED <<posts, collections>>
     ELSE IF collections[id].user # actor \/ posts[post].user # actor
     THEN /\ last' = [Resp("addPost", actor, id, 403) EXCEPT !.pre = post]
          /\ UNCHANGED <<posts, collections>>
     ELSE IF AlreadyInCollection(collections[id].items, post)
     THEN /\ last' = [Resp("addPost", actor, id, 400) EXCEPT !.pre = post]
          /\ UNCHANGED <<posts, collections>>
     ELSE /\ collections' = [collections EXCEPT ![id].items = Append(@, post)]
          /\ posts' = [posts EXCEPT ![post].userCollection = id]
          /\ last' = [Resp("addPost", actor, id, 200) EXCEPT
                        !.posts = <<post>>, !.pre = post]

\* A remove that leaves the items as they are.
ItemsKept(items, post) == items

\* collection.items.filter(item => item.toString() !== post._id.toString())
ItemsWithout(items, post) == Without(items, post)

\* DELETE /api/collections/:id/remove-post/:postId
RemovePostFromCollection(actor, id, post) ==
  /\ UNCHANGED <<sockets, acked, inflight, users, nextPost, nextColl, failures>>
  /\ emitted' = <<>>
  /\ IF ~Authenticated(actor)
     THEN /\ last' = [Resp("removePost", actor, id, 401) EXCEPT !.pre = post]
          /\ UNCHANGED <<posts, collections>>
     ELSE IF ~collections[id].exists \/ ~posts[post].exists
     THEN /\ last' = [Resp("removePost", actor, id, 404) EXCEPT !.pre = post]
          /\ UNCHANGED <<posts, collections>>
     ELSE IF collections[id].user # actor
     THEN /\ last' = [Resp("removePost", actor, id, 403) EXCEPT !.pre = post]
          /\ UNCHANGED <<posts, collections>>
     ELSE /\ collections' = [collections EXCEPT ![id].items = ItemsWithout(@, post)]
          /\ posts' = [posts EXCEPT ![post].userCollection = None]
          /\ last' = [Resp("removePost", actor, id, 200) EXCEPT
                        !.posts = <<post>>, !.pre = post,
                        !.flag = Includes(collections[id].items, post)]

(* ------------------------------ GET /api/posts/:id, GET /post/:id ------ *)

\* GET /api/posts/:id: no guard on the route; whoever asks gets the post.
GetPost(viewer, id) ==
  /\ UNCHANGED <<sockets, acked, inflight, users, posts, nextPost, collections, nextColl, failures>>
  /\ emitted' = <<>>
  /\ IF ~posts[id].exists
     THEN last' = Resp("getPost", viewer, id, 404)
     ELSE last' = [Resp("getPost", viewer, id, 200) EXCEPT !.posts = <<id>>]

\* GET /post/:id: the rendered page of one post.
ViewPost(viewer, id) ==
  /\ UNCHANGED <<sockets, acked, inflight, users, posts, nextPost, collections, nextColl, failures>>
  /\ emitted' = <<>>
  /\ IF ~posts[id].exists
     THEN last' = Resp("viewPost", viewer, id, 404)
     ELSE last' = [Resp("viewPost", viewer, id, 200) EXCEPT
                     !.posts = <<id>>,
                     !.flag = Authenticated(viewer) /\ Includes(posts[id].likes, viewer),
                     !.count = Len(posts[id].likes)]

(* ------------------------------ GET /api/users/:id/posts, /profile/:id - *)

\* A filter that asks the viewer's following list instead of the owner's
\* followers.
visibilityFilterByFollowing(viewer, owner) ==
  IF Authenticated(viewer)
  THEN IF viewer = owner
       THEN {"public", "private", "followers"}
       ELSE IF Includes(users[viewer].following, owner)
       THEN {"public", "followers"}
       ELSE {"public"}
  ELSE {"public"}

\* The visibility labels a viewer may see of an owner's posts.
visibilityFilter(viewer, owner) ==
  IF Authenticated(viewer)
  THEN IF viewer = owner
       THEN {"public", "private", "followers"}
       ELSE IF Includes(users[owner].followers, viewer)
       THEN {"public", "followers"}
       ELSE {"public"}
  ELSE {"public"}

\* Post.find({ user: user._id, visibility: { $in: visibilityFilter } })
UserPostsQuery(owner, filter) ==
  {p \in StoredPosts : posts[p].user = owner /\ posts[p].visibility \in filter}

ListLimit == 12

ListUserPosts(viewer, owner, page, limit) ==
  /\ UNCHANGED <<sockets, acked, inflight, users, posts, nextPost, collections, nextColl, failures>>
  /\ emitted' = <<>>
  /\ IF owner \notin DOMAIN users
     THEN last' = Resp("listPosts", viewer, owner, 404)
     ELSE LET filter == visibilityFilter(viewer, owner)
              lim == OrDefault(limit, ListLimit)
              skip == (OrDefault(page, 1) - 1) * lim
              found == Page(NewestFirst(UserPostsQuery(owner, filter)), skip, lim)
          IN last' = [Resp("listPosts", viewer, owner, 200) EXCEPT
                        !.posts = found, !.filter = filter,
                        !.flag = (Len(found) = lim),
                        !.pre = <<OrDefault(page, 1), lim>>]

\* GET /profile/:id?: without an id the viewer's own profile, or the login
\* page for an anonymous viewer.
ViewProfile(viewer, id) ==
  /\ UNCHANGED <<sockets, acked, inflight, users, posts, nextPost, collections, nextColl, failures>>
  /\ emitted' = <<>>
  /\ LET owner == IF id # Absent THEN id
                  ELSE IF Authenticated(viewer) THEN viewer ELSE Absent
     IN IF owner = Absent
        THEN last' = Resp("viewProfile", viewer, owner, 302)
        ELSE IF owner \notin DOMAIN users
        THEN last' = Resp("viewProfile", viewer, owner, 404)
        ELSE LET filter == visibilityFilter(viewer, owner)
                 found == NewestFirst(UserPostsQuery(owner, filter))
             IN last' = [Resp("viewProfile", viewer, owner, 200) EXCEPT
                           !.posts = found, !.filter = filter,
                           !.count = Len(found)]

(* ------------------------------ GET /api/posts/feed, GET /feed --------- *)

\* Post.find({ user: { $in: [...req.user.following, req.user._id] },
\*             visibility: { $in: ['public', 'followers'] } })
FeedQuery(viewer) ==
  {p \in StoredPosts :
     /\ posts[p].user \in Range(users[viewer].following) \cup {viewer}
     /\ posts[p].visibility \in {"public", "followers"}}

FeedLimit == 10

Feed(viewer, page, limit) ==
  /\ UNCHANGED <<sockets, acked, inflight, users, posts, nextPost, collections, nextColl, failures>>
  /\ emitted' = <<>>
  /\ IF ~Authenticated(viewer)
     THEN last' = Resp("feed", viewer, None, 401)
     ELSE LET lim == OrDefault(limit, FeedLimit)
              skip == (OrDefault(page, 1) - 1) * lim
              found == Page(NewestFirst(FeedQuery(viewer)), skip, lim)
          IN last' = [Resp("feed", viewer, None, 200) EXCEPT
                        !.posts = found, !.flag = (Len(found) = lim),
                        !.pre = <<OrDefault(page, 1), lim>>]

ViewFeedLimit == 20

ViewFeed(viewer) ==
  /\ UNCHANGED <<sockets, acked, inflight, users, posts, nextPost, collections, nextColl, failures>>
  /\ emitted' = <<>>
  /\ IF ~Authenticated(viewer)
     THEN last' = Resp("viewFeed", viewer, None, 302)
     ELSE last' = [Resp("viewFeed", viewer, None, 200) EXCEPT
                     !.posts = Page(NewestFirst(FeedQuery(viewer)), 0, ViewFeedLimit)]

(* ------------------------------ GET /api/posts/explore, /explore, / ---- *)

\* Post.find({ visibility: 'public', ...text filters }).  The text of
\* captions and tags is not part of the state: the category, brand and search
\* filters of a request are the set of posts whose text they match, any set
\* of posts.
ExploreQuery(matching) ==
  {p \in StoredPosts : posts[p].visibility = "public" /\ p \in matching}

ExploreLimit == 20

\* .sort({ 'likes.length': -1, createdAt: -1 }): a like entry has no length
\* field, so the first key ties on every post and createdAt decides.
Explore(viewer, matching, page, limit) ==
  /\ UNCHANGED <<sockets, acked, inflight, users, posts, nextPost, collections, nextColl, failures>>
  /\ emitted' = <<>>
  /\ LET lim == OrDefault(limit, ExploreLimit)
         skip == (OrDefault(page, 1) - 1) * lim
         found == Page(NewestFirst(ExploreQuery(matching)), skip, lim)
     IN last' = [Resp("explore", viewer, None, 200) EXCEPT
                   !.posts = found, !.flag = (Len(found) = lim),
                   !.pre = <<OrDefault(page, 1), lim>>]

ViewExploreLimit == 30

ViewExplore(viewer, matching) ==
  /\ UNCHANGED <<sockets, acked, inflight, users, posts, nextPost, collections, nextColl, failures>>
  /\ emitted' = <<>>
  /\ last' = [Resp("viewExplore", viewer, None, 200) EXCEPT
                !.posts = Page(NewestFirst(ExploreQuery(matching)), 0, ViewExploreLimit)]

HomeLimit == 6

\* GET /: the feed for a signed-in viewer, the trending public posts for
\* anyone else.
Home(viewer) ==
  /\ UNCHANGED <<sockets, acked, inflight, users, posts, nextPost, collections, nextColl, failures>>
  /\ emitted' = <<>>
  /\ IF Authenticated(viewer)
     THEN last' = Resp("home", viewer, None, 302)
     ELSE last' = [Resp("home", viewer, None, 200) EXCEPT
                     !.posts = Page(NewestFirst(ExploreQuery(PostIds)), 0, HomeLimit)]

(* ------------------------------ errorHandler -------------------------- *)

\* The code of the store's duplicate-key error.
DuplicateKey == 11000

\* An error as the handler reads it: its name, its code (None when it has
\* none), the first key of keyValue (of a duplicate-key error), its own
\* statusCode (None when it has none), its message (a text is the sequence
\* of its parts, the empty text is <<>>) and the messages of its errors (of
\* a validation error).
Err(name, code, field, statusCode, message, errors) ==
  [name |-> name, code |-> code, field |-> field, statusCode |-> statusCode,
   message |-> message, errors |-> errors]

\* The failures the routes hand to next(error): a malformed identifier, a
\* unique-constraint violation, a schema validation failure, the two token
\* failures, and any other error, with or without a status code and a
\* message of its own.
Errors ==
  {Err("CastError", None, Absent, None, <<"Cast to ObjectId failed">>, <<>>)}
  \cup {Err("MongoServerError", DuplicateKey, f, None, <<"E11000 duplicate key">>, <<>>) :
          f \in {"email", "username", "phone"}}
  \cup {Err("ValidationError", None, Absent, None, <<"Post validation failed">>, e) :
          e \in {<<>>, <<"text is required">>,
                 <<"text is required", "general is not a valid enum value">>}}
  \cup {Err("JsonWebTokenError", None, Absent, None, <<"jwt malformed">>, <<>>),
        Err("TokenExpiredError", None, Absent, None, <<"jwt expired">>, <<>>)}
  \cup {Err("Error", None, Absent, c, m, <<>>) :
          c \in {None, 403, 418, 503}, m \in {<<>>, <<"boom">>}}

\* The request the failure belongs to: whether its URL starts with /api/ and
\* whether its Accept header includes application/json.
ErrorRequests == [api : BOOLEAN, json : BOOLEAN]

\* process.env.NODE_ENV; Absent when it is not set.
Environments == {"development", "production", "test", Absent}

\* The error the answer is built from: the copy of err, replaced in turn by
\* each rule that matches.
Translated(err) ==
  IF err.name = "TokenExpiredError"
  THEN [message |-> <<"Token expired">>, statusCode |-> 401]
  ELSE IF err.name = "JsonWebTokenError"
  THEN [message |-> <<"Invalid token">>, statusCode |-> 401]
  ELSE IF err.name = "ValidationError"
  THEN [message |-> err.errors, statusCode |-> 400]
  ELSE IF err.code = DuplicateKey
  THEN [message |-> IF err.field = "email" THEN <<"Email already exists">>
                    ELSE IF err.field = "username" THEN <<"Username already taken">>
                    ELSE <<"Duplicate field value entered">>,
        statusCode |-> 400]
  ELSE IF err.name = "CastError"
  THEN [message |-> <<"Resource not found">>, statusCode |-> 404]
  ELSE [message |-> err.message, statusCode |-> err.statusCode]

\* A stack trace whenever the mode is not production.
StackSentUnlessProduction(env) == env # "production"

\* process.env.NODE_ENV === 'development'
StackSent(env) == env = "development"

\* req.originalUrl.startsWith('/api/') || req.headers.accept?.includes('application/json')
IsApiRequest(req) == req.api \/ req.json

\* error.statusCode || 500
StatusOf(error) == IF error.statusCode = None THEN 500 ELSE error.statusCode

\* What the handler sends: JSON for an API request, the error page otherwise.
ErrorResponse(err, req, env) ==
  LET error == Translated(err)
  IN IF IsApiRequest(req)
     THEN [kind |-> "json", success |-> FALSE,
           message |-> IF error.message = <<>> THEN <<"Server Error">> ELSE error.message,
           stack |-> StackSent(env)]
     ELSE [kind |-> "page", success |-> FALSE,
           message |-> IF error.message = <<>> THEN <<"Something went wrong">>
                       ELSE error.message,
           stack |-> FALSE]

\* app.use(errorHandler)
HandleError(err, req, env) ==
  /\ last' = [Resp("error", Anonymous, None, StatusOf(Translated(err))) EXCEPT
                !.pre = [err |-> err, req |-> req, env |-> env],
                !.body = ErrorResponse(err, req, env)]
  /\ emitted' = <<>>
  /\ UNCHANGED <<users, posts, nextPost, collections, nextColl, failures, inflight,
                 sockets, acked>>

(* ------------------------------ io.on('connection') -------------------- *)

\* A room name is a string; here the sequence of its parts, so that
\* `user_${id}` is <<"user", id>> and `post_${postId}` is <<"post">> followed
\* by the parts of whatever the client sent as postId.
JoinedRoomRaw(postId) == postId

\* `post_${postId}`
JoinedRoom(postId) == <<"post">> \o postId

\* What a client may send as postId: a post's identifier, a user's
\* identifier, the name of a user's personal room, nothing.
PostArgs == {<<"1">>, <<"alice">>, <<"user", "alice">>, <<"user", "bob">>, <<>>}

\* io.use(socketAuth), io.on('connection'): only a session whose credential
\* names a user is connected; it joins `user_${socket.userId}`.
Connect(s, actor) ==
  /\ ~sockets[s].connected
  /\ Authenticated(actor)
  /\ sockets' = [sockets EXCEPT ![s] =
                   [connected |-> TRUE, userId |-> actor, rooms |-> {UserRoom(actor)}]]
  /\ last' = Resp("connection", actor, None, 0)
  /\ emitted' = <<>>
  /\ UNCHANGED <<users, posts, nextPost, collections, nextColl, failures, inflight, acked>>

\* socket.on('join_post', postId => socket.join(`post_${postId}`))
JoinPost(s, postId) ==
  /\ sockets[s].connected
  /\ sockets' = [sockets EXCEPT ![s].rooms = @ \cup {JoinedRoom(postId)}]
  /\ last' = [Resp("join_post", sockets[s].userId, None, 0) EXCEPT !.pre = postId]
  /\ emitted' = <<>>
  /\ UNCHANGED <<users, posts, nextPost, collections, nextColl, failures, inflight, acked>>

\* socket.on('leave_post', postId => socket.leave(`post_${postId}`))
LeavePost(s, postId) ==
  /\ sockets[s].connected
  /\ sockets' = [sockets EXCEPT ![s].rooms = @ \ {JoinedRoom(postId)}]
  /\ last' = [Resp("leave_post", sockets[s].userId, None, 0) EXCEPT !.pre = postId]
  /\ emitted' = <<>>
  /\ UNCHANGED <<users, posts, nextPost, collections, nextColl, failures, inflight, acked>>

\* socket.on('disconnect'): the handler only logs; socket.io has taken the
\* session out of its rooms.
Disconnect(s) ==
  /\ sockets[s].connected
  /\ sockets' = [sockets EXCEPT ![s] = NoSocket]
  /\ last' = Resp("disconnect", sockets[s].userId, None, 0)
  /\ emitted' = <<>>
  /\ UNCHANGED <<users, posts, nextPost, collections, nextColl, failures, inflight, acked>>

(* ------------------------------ behaviours ----------------------------- *)

InitWith(U) ==
  /\ users = [u \in U |-> [followers |-> <<>>, following |-> <<>>]]
  /\ posts = [p \in PostIds |-> NoPost]
  /\ nextPost = 0
  /\ collections = [c \in CollIds |-> NoColl]
  /\ nextColl = 0
  /\ failures = 0
  /\ last = Resp("none", Anonymous, None, 0)
  /\ emitted = <<>>
  /\ inflight = [r \in Slots |-> Idle]
  /\ sockets = [s \in SocketIds |-> NoSocket]
  /\ acked = <<>>

Init == InitWith(UserIds)

\* Two users: enough for an owner, a second viewer and the anonymous viewer.
InitPair == InitWith({"alice", "bob"})

Actors == DOMAIN users \cup {Anonymous}

NextFollow ==
  \/ \E a \in Actors, id \in DOMAIN users \cup {Ghost} : FollowToggle(a, id)
  \/ \E a \in Actors, id \in DOMAIN users, f \in FailedSaves :
        FollowToggleSaveFails(a, id, f)

SpecFollow == Init /\ [][NextFollow]_vars

\* Follow toggles that overlap.
NextFollowRace ==
  \/ \E r \in Slots, a \in DOMAIN users, id \in DOMAIN users : FollowReadTarget(r, a, id)
  \/ \E r \in Slots : FollowReadCurrent(r)
  \/ \E r \in Slots, which \in {"currentUser", "userToFollow"} : FollowSave(r, which)

SpecFollowRace == InitPair /\ [][NextFollowRace]_vars

\* Create-post requests without a target collection: every visibility label,
\* the absent label, and one request for each way the validators reject.
PlainBodies ==
  {PostBody(MaxCaption, TRUE, <<>>, TRUE, None, v) : v \in Visibilities \cup {Absent}}
  \cup {PostBody(0, TRUE, <<>>, TRUE, None, "public"),
        PostBody(MaxCaption + 1, TRUE, <<>>, TRUE, None, "public"),
        PostBody(MaxCaption, FALSE, <<>>, TRUE, None, "public"),
        PostBody(MaxCaption, TRUE, <<>>, FALSE, None, "public"),
        PostBody(MaxCaption, TRUE, <<>>, TRUE, None, "friends")}

Pages == {None, 2}

Limits == {None, 1}

\* The follow graph, the posts and the reads of one post.
NextSingle ==
  \/ \E a \in Actors, id \in DOMAIN users \cup {Ghost} : FollowToggle(a, id)
  \/ \E a \in Actors, id \in DOMAIN users, f \in FailedSaves :
        FollowToggleSaveFails(a, id, f)
  \/ \E a \in Actors, body \in PlainBodies : CreatePost(a, body)
  \/ \E v \in Actors, id \in PostIds : GetPost(v, id)
  \/ \E v \in Actors, id \in PostIds : ViewPost(v, id)

SpecSingle == InitPair /\ [][NextSingle]_vars

\* The follow graph, the posts and the listings of one user's posts.
NextList ==
  \/ \E a \in Actors, id \in DOMAIN users \cup {Ghost} : FollowToggle(a, id)
  \/ \E a \in Actors, id \in DOMAIN users, f \in FailedSaves :
        FollowToggleSaveFails(a, id, f)
  \/ \E a \in Actors, body \in PlainBodies : CreatePost(a, body)
  \/ \E v \in Actors, o \in DOMAIN users \cup {Ghost}, pg \in Pages, lim \in Limits :
        ListUserPosts(v, o, pg, lim)
  \/ \E v \in Actors, o \in DOMAIN users \cup {Ghost, Absent} : ViewProfile(v, o)

SpecList == InitPair /\ [][NextList]_vars

\* The follow graph, the posts and the feeds.
NextFeed ==
  \/ \E a \in Actors, id \in DOMAIN users \cup {Ghost} : FollowToggle(a, id)
  \/ \E a \in Actors, id \in DOMAIN users, f \in FailedSaves :
        FollowToggleSaveFails(a, id, f)
  \/ \E a \in Actors, body \in PlainBodies : CreatePost(a, body)
  \/ \E v \in Actors, pg \in Pages, lim \in Limits : Feed(v, pg, lim)
  \/ \E v \in Actors : ViewFeed(v)

SpecFeed == InitPair /\ [][NextFeed]_vars

\* The posts and the explore pages.
NextExplore ==
  \/ \E a \in Actors, body \in PlainBodies : CreatePost(a, body)
  \/ \E v \in Actors, m \in SUBSET PostIds, pg \in Pages, lim \in Limits :
        Explore(v, m, pg, lim)
  \/ \E v \in Actors, m \in SUBSET PostIds : ViewExplore(v, m)
  \/ \E v \in Actors : Home(v)

SpecExplore == InitPair /\ [][NextExplore]_vars

\* Create-post requests of a public post with one comment-free, like-free
\* record each; the likes and comments follow.
NextPost ==
  \/ \E a \in Actors, body \in PlainBodies : CreatePost(a, body)
  \/ \E a \in Actors, id \in PostIds : ToggleLike(a, id)
  \/ \E a \in Actors, id \in PostIds, text \in CommentTexts : AddComment(a, id, text)
  \/ \E v \in Actors, id \in PostIds : ViewPost(v, id)

SpecPost == InitPair /\ [][NextPost]_vars

\* Create-post requests for the handlers that never read a post's label: one
\* that is stored, one that the validators reject, one without its file.
UnlabelledBodies ==
  {PostBody(MaxCaption, TRUE, <<>>, TRUE, None, Absent),
   PostBody(0, TRUE, <<>>, TRUE, None, Absent),
   PostBody(MaxCaption, FALSE, <<>>, TRUE, None, Absent)}

\* The posts and their likes, one request after the other.
NextLike ==
  \/ \E a \in Actors, body \in UnlabelledBodies : CreatePost(a, body)
  \/ \E a \in Actors, id \in PostIds : ToggleLike(a, id)

SpecLike == InitPair /\ [][NextLike]_vars

\* The posts and their comments, one request after the other.
NextComment ==
  \/ \E a \in Actors, body \in UnlabelledBodies : CreatePost(a, body)
  \/ \E a \in Actors, id \in PostIds, text \in CommentTexts : AddComment(a, id, text)

SpecComment == InitPair /\ [][NextComment]_vars

\* The failures the error handler answers.
NextError ==
  \E err \in Errors, req \in ErrorRequests, env \in Environments :
     HandleError(err, req, env)

SpecError == InitPair /\ [][NextError]_vars

\* The real-time sessions and what their clients send.
NextSocket ==
  \/ \E s \in SocketIds, a \in Actors : Connect(s, a)
  \/ \E s \in SocketIds, arg \in PostArgs : JoinPost(s, arg)
  \/ \E s \in SocketIds, arg \in PostArgs : LeavePost(s, arg)
  \/ \E s \in SocketIds : Disconnect(s)

SpecSocket == InitPair /\ [][NextSocket]_vars

\* The posts and toggle-like requests that overlap.
NextLikeRace ==
  \/ \E a \in Actors, body \in PlainBodies : CreatePost(a, body)
  \/ \E r \in Slots, a \in DOMAIN users, id \in PostIds : LikeRead(r, a, id)
  \/ \E r \in Slots : LikeSave(r)

SpecLikeRace == InitPair /\ [][NextLikeRace]_vars

\* One request in flight for each of the two users.
SlotOf == [alice |-> "r1", bob |-> "r2"]

\* Toggle-like requests of two users that overlap, on posts whose creation
\* succeeded or was refused by the validators.
NextLikeOverlap ==
  \/ \E a \in DOMAIN users, body \in UnlabelledBodies : CreatePost(a, body)
  \/ \E a \in DOMAIN users, id \in PostIds : LikeRead(SlotOf[a], a, id)
  \/ \E r \in Slots : LikeSave(r)

SpecLikeOverlap == InitPair /\ [][NextLikeOverlap]_vars

\* Add-comment and toggle-like requests of two users that overlap.
NextCommentRace ==
  \/ \E a \in DOMAIN users, body \in UnlabelledBodies : CreatePost(a, body)
  \/ \E a \in DOMAIN users, id \in PostIds : CommentRead(SlotOf[a], a, id, 1)
  \/ \E r \in Slots : CommentSave(r)
  \/ \E r \in Slots : CommentAnswer(r)
  \/ \E a \in DOMAIN users, id \in PostIds : LikeRead(SlotOf[a], a, id)
  \/ \E r \in Slots : LikeSave(r)

SpecCommentRace == InitPair /\ [][NextCommentRace]_vars

\* The tags a create-post request may carry: a tag with a category of the
\* schema, a tag with a name and no category, a tag with a category the
\* schema does not know.
TagLists ==
  {<<>>,
   <<[name |-> "nike", type |-> "brand"]>>,
   <<[name |-> "nike", type |-> NoType]>>,
   <<[name |-> "nike", type |-> "vintage"]>>,
   <<[name |-> "nike", type |-> "brand"], [name |-> "red", type |-> NoType]>>}

\* Create-post requests with tags, and one whose tags field is no array.
TaggedBodies ==
  {PostBody(MaxCaption, TRUE, tags, TRUE, None, Absent) : tags \in TagLists}
  \cup {PostBody(MaxCaption, TRUE, <<>>, FALSE, None, Absent)}

\* The posts with their tags, and the reads of one post.
NextTags ==
  \/ \E a \in Actors, body \in TaggedBodies : CreatePost(a, body)
  \/ \E v \in Actors, id \in PostIds : GetPost(v, id)
  \/ \E v \in Actors, id \in PostIds : ViewPost(v, id)

SpecTags == InitPair /\ [][NextTags]_vars

\* Create-post requests that name a target collection: each identifier, no
\* collection, and a malformed identifier.
CollectionBodies ==
  {PostBody(MaxCaption, TRUE, <<>>, TRUE, c, Absent) : c \in CollIds \cup {None, -1}}

CollectionRequests ==
  {CollectionBody(MaxCollectionName, "sneakers", 0),
   CollectionBody(0, "sneakers", 0),
   CollectionBody(MaxCollectionName + 1, "sneakers", 0),
   CollectionBody(MaxCollectionName, "stamps", 0),
   CollectionBody(MaxCollectionName, "sneakers", MaxDescription + 1)}

\* The follow graph, the collections and the posts created into them.
NextCreate ==
  \/ \E a \in Actors, id \in DOMAIN users \cup {Ghost} : FollowToggle(a, id)
  \/ \E a \in Actors, body \in CollectionRequests : CreateCollection(a, body)
  \/ \E a \in Actors, id \in CollIds : DeleteCollection(a, id)
  \/ \E a \in Actors, body \in CollectionBodies : CreatePost(a, body)

SpecCreate == InitPair /\ [][NextCreate]_vars

\* The collections, the posts put into them, and the collections' deletion.
NextColl ==
  \/ \E a \in Actors, body \in CollectionBodies : CreatePost(a, body)
  \/ \E a \in Actors, body \in CollectionRequests : CreateCollection(a, body)
  \/ \E a \in Actors, id \in CollIds : DeleteCollection(a, id)
  \/ \E a \in Actors, id \in CollIds, p \in PostIds : AddPostToCollection(a, id, p)
  \/ \E v \in Actors, id \in PostIds : GetPost(v, id)

SpecColl == InitPair /\ [][NextColl]_vars

\* A post identifier of an add-post request: a post's, or a malformed one.
PostRefs == PostIds \cup {-1}

\* The collections and their membership: posts created into them, added to
\* them and removed from them.
NextMember ==
  \/ \E a \in DOMAIN users, body \in CollectionBodies : CreatePost(a, body)
  \/ \E a \in DOMAIN users, body \in CollectionRequests : CreateCollection(a, body)
  \/ \E a \in Actors, id \in CollIds, p \in PostRefs : AddPostToCollection(a, id, p)
  \/ \E a \in Actors, id \in CollIds, p \in PostIds : RemovePostFromCollection(a, id, p)

SpecMember == InitPair /\ [][NextMember]_vars

\* Membership and the deletion of posts.
NextDelete ==
  \/ \E a \in Actors, body \in CollectionBodies : CreatePost(a, body)
  \/ \E a \in Actors, body \in CollectionRequests : CreateCollection(a, body)
  \/ \E a \in Actors, id \in CollIds, p \in PostIds : AddPostToCollection(a, id, p)
  \/ \E a \in Actors, id \in CollIds, p \in PostIds : RemovePostFromCollection(a, id, p)
  \/ \E a \in Actors, id \in PostIds : DeletePost(a, id)

SpecDelete == InitPair /\ [][NextDelete]_vars

\* Every operation on the membership of posts in collections, by signed-in
\* users.
NextMembership ==
  \/ \E a \in DOMAIN users, body \in CollectionBodies : CreatePost(a, body)
  \/ \E a \in DOMAIN users, body \in CollectionRequests : CreateCollection(a, body)
  \/ \E a \in DOMAIN users, id \in CollIds, p \in PostIds :
        AddPostToCollection(a, id, p)
  \/ \E a \in DOMAIN users, id \in CollIds, p \in PostIds :
        RemovePostFromCollection(a, id, p)
  \/ \E a \in DOMAIN users, id \in PostIds : DeletePost(a, id)
  \/ \E a \in DOMAIN users, id \in CollIds : DeleteCollection(a, id)

SpecMembership == InitPair /\ [][NextMembership]_vars

(* ------------------------------ properties ----------------------------- *)

ReadOps ==
  {"getPost", "viewPost", "listPosts", "viewProfile", "feed", "viewFeed",
   "explore", "viewExplore", "home"}

\* The visibility resolver of the specification: the labels a viewer may see
\* of an owner's posts.
Resolved(viewer, owner) ==
  IF viewer = owner THEN {"public", "private", "followers"}
  ELSE IF viewer \in DOMAIN users /\ viewer \in Range(users[owner].followers)
  THEN {"public", "followers"}
  ELSE {"public"}

\* C1: no operation that retrieves posts returns a private post to a viewer
\* who is not its owner.
C1_PrivateOnlyToOwner ==
  (last.op \in ReadOps /\ last.status = 200) =>
    \A i \in 1..Len(last.posts) :
      posts[last.posts[i]].visibility = "private"
        => posts[last.posts[i]].user = last.actor

\* C2: a single-post retrieval of a followers-only post returns the post if
\* and only if the viewer is the owner or is in the owner's followers.
C2_FollowersOnlyToFollowers ==
  (/\ last.op \in {"getPost", "viewPost"}
   /\ posts[last.id].exists
   /\ posts[last.id].visibility = "followers") =>
    ((last.status = 200 /\ last.posts = <<last.id>>)
       <=> "followers" \in Resolved(last.actor, posts[last.id].user))

\* C3: right after a successful follow toggle by A on B, B is in A's
\* following if and only if A is in B's followers, and that is the state the
\* call reports.
C3_ToggleSymmetric ==
  (last.op = "follow" /\ last.status = 200) =>
    /\ (last.id \in Range(users[last.actor].following))
         <=> (last.actor \in Range(users[last.id].followers))
    /\ last.flag <=> (last.actor \in Range(users[last.id].followers))

\* An unfollow that met a graph whose two sides disagreed.
C3_Witness ==
  /\ last.op = "follow"
  /\ last.status = 200
  /\ ~last.flag
  /\ failures > 0
  /\ \E u \in DOMAIN users : users[u].followers # <<>>

NoSelfFollow ==
  \A u \in DOMAIN users :
    u \notin Range(users[u].followers) /\ u \notin Range(users[u].following)

\* C4: a follow toggle on oneself is answered 400, emits nothing and changes
\* no user; no user is ever in their own followers or following.
C4_SelfFollowRejected ==
  /\ [][(/\ last'.op = "follow"
         /\ last'.actor \in DOMAIN users
         /\ last'.id = last'.actor)
          => (last'.status = 400 /\ emitted' = <<>> /\ users' = users)]_vars
  /\ []NoSelfFollow

\* A rejected self-follow in a graph that has a follower to lose.
C4_Witness ==
  /\ last.op = "follow"
  /\ last.actor \in DOMAIN users
  /\ last.id = last.actor
  /\ last.status = 400
  /\ users[last.actor].followers # <<>>

\* C5: a toggle-like returns the count and the liked state of the stored
\* post; the second of two consecutive toggles by one user on one post
\* leaves the like set, the count and the user's liked state as they were
\* before the first.
C5_LikeRoundTrip ==
  (last.op = "like" /\ last.status = 200) =>
    /\ last.count = Len(posts[last.id].likes)
    /\ last.flag <=> (last.actor \in Range(posts[last.id].likes))
    /\ last.again =>
         /\ Range(posts[last.id].likes) = Range(last.pre0)
         /\ Len(posts[last.id].likes) = Len(last.pre0)
         /\ (last.actor \in Range(posts[last.id].likes))
              <=> (last.actor \in Range(last.pre0))

\* Unlike then like again, on a post that someone else likes too.
C5_Witness ==
  /\ last.op = "like"
  /\ last.status = 200
  /\ last.again
  /\ last.flag
  /\ Len(last.pre0) = 2

\* C6: a successful delete of a collection removes the collection, deletes
\* no post, and leaves no post with a reference to it.
C6_DeleteCollectionDetaches ==
  [][(last'.op = "deleteCollection" /\ last'.status = 200) =>
       /\ ~collections'[last'.id].exists
       /\ \A p \in PostIds :
            /\ posts[p].exists => posts'[p].exists
            /\ posts'[p].exists => posts'[p].userCollection # last'.id
            /\ (posts[p].exists /\ posts[p].userCollection = last'.id)
                 => posts'[p].userCollection = None
            /\ (posts[p].exists /\ posts[p].userCollection # last'.id)
                 => posts'[p] = posts[p]]_vars

\* A collection deleted while a post referenced it; the post is still there.
C6_Witness ==
  /\ last.op = "deleteCollection"
  /\ last.status = 200
  /\ last.pre # <<>>
  /\ \A i \in 1..Len(last.pre) :
       posts[last.pre[i]].exists /\ posts[last.pre[i]].userCollection = None

\* C7: an add-comment by a signed-in user with an empty text or a text over
\* 500 characters is answered 400 and changes no post; with 1 to 500
\* characters on a stored post it is answered 201, the post has one comment
\* more, and totalComments is that count.
C7_CommentLength ==
  [][(last'.op = "comment" /\ last'.actor \in DOMAIN users) =>
       /\ (last'.pre = 0 \/ last'.pre > 500)
            => (last'.status = 400 /\ posts' = posts)
       /\ (last'.pre >= 1 /\ last'.pre <= 500 /\ posts[last'.id].exists)
            => /\ last'.status = 201
               /\ Len(posts'[last'.id].comments) = Len(posts[last'.id].comments) + 1
               /\ last'.count = Len(posts'[last'.id].comments)]_vars

\* A comment of exactly 500 characters was stored.
C7_Witness ==
  /\ last.op = "comment"
  /\ last.status = 201
  /\ last.pre = 500
  /\ last.count = 1

\* The place of a post in a set of posts, newest first.
Rank(p, S) == 1 + Cardinality({q \in S : q > p})

\* C8: a listing of a user's posts filters by the labels the resolver gives
\* the viewer, computed from the owner's stored followers, and returns the
\* owner's posts with those labels: all of them on the profile page, the
\* requested page of them (newest first) from the API.
C8_ListingFilter ==
  (last.op \in {"listPosts", "viewProfile"} /\ last.status = 200) =>
    LET allowed == Resolved(last.actor, last.id)
        visible == {p \in PostIds :
                      /\ posts[p].exists
                      /\ posts[p].user = last.id
                      /\ posts[p].visibility \in allowed}
    IN /\ last.filter = allowed
       /\ last.op = "viewProfile" => Range(last.posts) = visible
       /\ last.op = "listPosts" =>
            Range(last.posts) =
              {p \in visible :
                 /\ Rank(p, visible) > (last.pre[1] - 1) * last.pre[2]
                 /\ Rank(p, visible) <= last.pre[1] * last.pre[2]}
       /\ Len(last.posts) = Cardinality(Range(last.posts))
       /\ \A i, j \in 1..Len(last.posts) : i < j => last.posts[i] > last.posts[j]

\* A follower by the owner's followers alone (the viewer's own following
\* list does not name the owner) is listed the owner's followers-only post.
C8_Witness ==
  /\ last.op = "listPosts"
  /\ last.status = 200
  /\ last.actor \in DOMAIN users
  /\ last.actor # last.id
  /\ last.actor \in Range(users[last.id].followers)
  /\ last.id \notin Range(users[last.actor].following)
  /\ last.filter = {"public", "followers"}
  /\ \E i \in 1..Len(last.posts) : posts[last.posts[i]].visibility = "followers"

\* C9: every post the feed returns to a viewer has a label the resolver
\* allows that viewer for the post's owner.
C9_FeedResolved ==
  (last.op \in {"feed", "viewFeed"} /\ last.status = 200) =>
    \A i \in 1..Len(last.posts) :
      posts[last.posts[i]].visibility
        \in Resolved(last.actor, posts[last.posts[i]].user)

LikeNotifications ==
  {i \in 1..Len(emitted) :
     emitted[i].event = "notification" /\ emitted[i].type = "like"}

\* C10: a toggle-like emits a like notification, one, to the owner's
\* personal channel, if and only if it added a like and the actor is not the
\* owner; an unlike, a self-like and a toggle on a missing post emit none.
C10_LikeNotification ==
  last.op = "like" =>
    IF /\ last.status = 200
       /\ last.actor \notin Range(last.pre)
       /\ posts[last.id].user # last.actor
    THEN /\ Cardinality(LikeNotifications) = 1
         /\ \A i \in LikeNotifications :
              /\ emitted[i].room = UserRoom(posts[last.id].user)
              /\ emitted[i].userId = last.actor
              /\ emitted[i].postId = last.id
    ELSE LikeNotifications = {}

\* A like by someone else than the owner was notified to the owner.
C10_Witness ==
  /\ last.op = "like"
  /\ last.status = 200
  /\ last.flag
  /\ posts[last.id].user # last.actor
  /\ LikeNotifications # {}

PostLikeBroadcasts ==
  {i \in 1..Len(emitted) : emitted[i].event = "post_like"}

\* C11: a toggle-like emits the post_like broadcast only when it adds a like
\* and the liker is not the post's owner: never on an unlike, never for the
\* owner's own like.
C11_BroadcastOnlyOnLike ==
  (last.op = "like" /\ PostLikeBroadcasts # {}) =>
    /\ last.status = 200
    /\ last.flag
    /\ posts[last.id].user # last.actor

PostCommentBroadcasts ==
  {i \in 1..Len(emitted) : emitted[i].event = "post_comment"}

CommentNotifications ==
  {i \in 1..Len(emitted) :
     emitted[i].event = "notification" /\ emitted[i].type = "comment"}

\* C12: a successful add-comment emits one post_comment event, to the post's
\* channel, with the post, the new number of comments and the new comment,
\* and a comment notification to the owner's channel if and only if the
\* commenter is not the owner; a rejected add-comment emits nothing.
C12_CommentEvents ==
  last.op = "comment" =>
    IF last.status = 201
    THEN LET post == posts[last.id]
             new == post.comments[Len(post.comments)]
         IN /\ Cardinality(PostCommentBroadcasts) = 1
            /\ \A i \in PostCommentBroadcasts :
                 /\ emitted[i].room = PostRoom(last.id)
                 /\ emitted[i].postId = last.id
                 /\ emitted[i].count = Len(post.comments)
                 /\ emitted[i].comment = <<new>>
                 /\ new = [user |-> last.actor, text |-> last.pre]
            /\ IF post.user # last.actor
               THEN /\ Cardinality(CommentNotifications) = 1
                    /\ \A i \in CommentNotifications :
                         /\ emitted[i].room = UserRoom(post.user)
                         /\ emitted[i].userId = last.actor
                         /\ emitted[i].postId = last.id
               ELSE CommentNotifications = {}
            /\ Len(emitted) = Cardinality(PostCommentBroadcasts \cup CommentNotifications)
    ELSE emitted = <<>>

\* The owner commented on their own post: the broadcast went out, alone.
C12_Witness ==
  /\ last.op = "comment"
  /\ last.status = 201
  /\ posts[last.id].user = last.actor
  /\ PostCommentBroadcasts # {}
  /\ Len(emitted) = 1

NewPostBroadcasts ==
  {i \in 1..Len(emitted) : emitted[i].event = "new_post"}

\* C13: a successful create-post emits new_post to the personal channel of
\* each member of the author's stored followers and to no other channel,
\* naming the author and the new post; a failed create-post emits none.
C13_NewPostFanOut ==
  last.op = "createPost" =>
    IF last.status = 201
    THEN /\ {emitted[i].room : i \in NewPostBroadcasts}
              = {UserRoom(f) : f \in Range(users[last.actor].followers)}
         /\ \A i \in NewPostBroadcasts :
              emitted[i].userId = last.actor /\ emitted[i].postId = last.id
         /\ Len(emitted) = Cardinality(NewPostBroadcasts)
    ELSE NewPostBroadcasts = {}

\* A post by an author with a follower, who was told.
C13_Witness ==
  /\ last.op = "createPost"
  /\ last.status = 201
  /\ users[last.actor].followers # <<>>
  /\ NewPostBroadcasts # {}

FollowNotifications ==
  {i \in 1..Len(emitted) :
     emitted[i].event = "notification" /\ emitted[i].type = "follow"}

C15_DeletePostDetaches ==
  [][(/\ last'.op = "deletePost"
      /\ last'.actor \in DOMAIN users
      /\ posts[last'.id].exists) =>
       IF posts[last'.id].user = last'.actor
       THEN /\ last'.status = 200
            /\ ~posts'[last'.id].exists
            /\ \A c \in CollIds :
                 collections'[c].exists => ~Includes(collections'[c].items, last'.id)
       ELSE /\ last'.status = 403
            /\ posts' = posts
            /\ collections' = collections]_vars

\* C16: a create-post (otherwise valid, by a signed-in user) that names a
\* collection which does not exist or belongs to someone else is answered
\* 404, creates no post, changes no collection and emits nothing; when the
\* actor owns the named collection, the created post references it and the
\* collection's items hold the post's identifier.
C16_CreateIntoCollection ==
  [][(/\ last'.op = "createPost"
      /\ last'.actor \in DOMAIN users
      /\ CreatePostValid(last'.pre)
      /\ last'.pre.file
      /\ last'.pre.userCollection # None) =>
       LET c == last'.pre.userCollection
       IN IF c \in CollIds /\ collections[c].exists /\ collections[c].user = last'.actor
          THEN /\ last'.status \in {201, 400}
               /\ last'.status = 201 =>
                    /\ posts'[last'.id].exists
                    /\ posts'[last'.id].userCollection = c
                    /\ Includes(collections'[c].items, last'.id)
                    /\ ~Includes(collections[c].items, last'.id)
          ELSE /\ last'.status = 404
               /\ posts' = posts
               /\ nextPost' = nextPost
               /\ collections' = collections
               /\ emitted' = <<>>]_vars

\* A create-post into someone else's collection, by an author who has a
\* follower to notify, was refused.
C16_Witness ==
  /\ last.op = "createPost"
  /\ last.status = 404
  /\ last.pre.userCollection \in CollIds
  /\ collections[last.pre.userCollection].exists
  /\ collections[last.pre.userCollection].user # last.actor
  /\ users[last.actor].followers # <<>>

\* C17: an add-post succeeds exactly when the signed-in actor owns the
\* collection and the post and the post is not in the collection's items,
\* and then appends the post and sets its reference; an add of a post the
\* items already hold is answered 400; every rejected add leaves the
\* collections and the posts as they were.
C17_AddPost ==
  [][last'.op = "addPost" =>
       LET c == last'.id
           p == last'.pre
           actor == last'.actor
           owned == /\ actor \in DOMAIN users
                    /\ p \in PostIds
                    /\ collections[c].exists
                    /\ posts[p].exists
                    /\ collections[c].user = actor
                    /\ posts[p].user = actor
       IN /\ last'.status = 200 <=> (owned /\ p \notin Range(collections[c].items))
          /\ last'.status = 200 =>
               /\ collections'[c].items = Append(collections[c].items, p)
               /\ posts'[p].userCollection = c
          /\ (owned /\ p \in Range(collections[c].items)) => last'.status = 400
          /\ last'.status # 200 => (collections' = collections /\ posts' = posts)]_vars

\* The owner added a post the collection already listed, and was refused.
C17_Witness ==
  /\ last.op = "addPost"
  /\ last.status = 400
  /\ last.pre \in PostIds
  /\ posts[last.pre].exists
  /\ posts[last.pre].user = last.actor
  /\ collections[last.id].exists
  /\ collections[last.id].user = last.actor
  /\ Includes(collections[last.id].items, last.pre)

\* C18: a remove-post succeeds only for the collection's owner; after it the
\* collection's items do not hold the post and the post has no collection
\* reference.  Someone else's remove is answered 403 and changes neither
\* the collections nor the posts.
C18_RemovePost ==
  [][last'.op = "removePost" =>
       LET c == last'.id
           p == last'.pre
           actor == last'.actor
       IN /\ last'.status = 200 =>
               /\ actor \in DOMAIN users
               /\ collections[c].exists
               /\ collections[c].user = actor
               /\ p \notin Range(collections'[c].items)
               /\ posts'[p].userCollection = None
          /\ (/\ actor \in DOMAIN users
              /\ collections[c].exists
              /\ posts[p].exists) =>
               IF collections[c].user = actor
               THEN last'.status = 200
               ELSE /\ last'.status = 403
                    /\ collections' = collections
                    /\ posts' = posts]_vars

\* The owner removed a post that the collection listed.
C18_Witness ==
  /\ last.op = "removePost"
  /\ last.status = 200
  /\ last.flag
  /\ ~Includes(collections[last.id].items, last.pre)
  /\ posts[last.pre].userCollection = None

\* C19: every identifier in a collection's items is the identifier of a
\* stored post whose owner is the collection's owner.
C19_ItemsOwnedByCollectionOwner ==
  \A c \in CollIds :
    collections[c].exists =>
      \A i \in 1..Len(collections[c].items) :
        /\ posts[collections[c].items[i]].exists
        /\ posts[collections[c].items[i]].user = collections[c].user

\* A collection lists its owner's post, and the add of that post to,
\* or by, someone else was just refused.
C19_Witness ==
  /\ last.op = "addPost"
  /\ last.status = 403
  /\ last.pre \in PostIds
  /\ \/ posts[last.pre].user # collections[last.id].user
     \/ last.actor # collections[last.id].user
  /\ \E c \in CollIds : collections[c].exists /\ collections[c].items # <<>>

\* C20: no user appears twice in the like list of a post, overlapping
\* toggle-like requests included.
C20_DistinctLikers ==
  \A p \in PostIds :
    posts[p].exists =>
      \A i, j \in 1..Len(posts[p].likes) :
        i # j => posts[p].likes[i] # posts[p].likes[j]

\* The personal channels a session is in: the rooms named user_...
PersonalRooms(s) == {room \in sockets[s].rooms : room # <<>> /\ room[1] = "user"}

OnePersonalRoom ==
  \A s \in SocketIds :
    sockets[s].connected => PersonalRooms(s) = {UserRoom(sockets[s].userId)}

\* C21: a connected session is in exactly one personal channel, its own
\* user's; a join_post or leave_post, whatever its argument, changes the
\* membership of the post channel it names and of no other room.
C21_PersonalChannel ==
  /\ []OnePersonalRoom
  /\ [][last'.op \in {"join_post", "leave_post"} =>
          \A s \in SocketIds :
            /\ sockets'[s].connected = sockets[s].connected
            /\ sockets[s].connected =>
                 /\ sockets'[s].userId = sockets[s].userId
                 /\ sockets'[s].rooms \ {<<"post">> \o last'.pre}
                      = sockets[s].rooms \ {<<"post">> \o last'.pre}]_vars

\* A session asked to join the room named like another user's personal
\* room, and is in a post room for it.
C21_Witness ==
  /\ last.op = "join_post"
  /\ \E s \in SocketIds :
       /\ sockets[s].connected
       /\ sockets[s].userId = last.actor
       /\ last.pre = UserRoom("bob")
       /\ last.actor = "alice"
       /\ <<"post", "user", "bob">> \in sockets[s].rooms

\* C22: the error handler answers a malformed identifier with 404, a
\* unique-constraint violation with 400 and a message that names email or
\* username, a validation failure with 400, a token failure with 401, and
\* anything else with the error's own status code, or 500 when it has none;
\* an API request is answered with success = false and a message that is
\* not empty, and with a stack trace only in development mode.
C22_ErrorTaxonomy ==
  last.op = "error" =>
    LET err == last.pre.err
        req == last.pre.req
        body == last.body
    IN /\ err.name = "CastError" => last.status = 404
       /\ err.code = 11000 =>
            /\ last.status = 400
            /\ err.field = "email" => body.message = <<"Email already exists">>
            /\ err.field = "username" => body.message = <<"Username already taken">>
            /\ err.field \notin {"email", "username"} =>
                 body.message \notin {<<"Email already exists">>, <<"Username already taken">>}
       /\ err.name = "ValidationError" => last.status = 400
       /\ err.name \in {"JsonWebTokenError", "TokenExpiredError"} => last.status = 401
       /\ err.name = "Error" =>
            last.status = (IF err.statusCode # 0 THEN err.statusCode ELSE 500)
       /\ (req.api \/ req.json) =>
            /\ body.kind = "json"
            /\ body.success = FALSE
            /\ body.message # <<>>
       /\ body.stack => last.pre.env = "development"
       /\ (body.kind = "json" /\ last.pre.env = "development") => body.stack

\* A failure with no message and no status of its own, in an API request of
\* a server whose mode is not set: 500, a default message, no stack.
C22_Witness ==
  /\ last.op = "error"
  /\ last.pre.err.name = "Error"
  /\ last.pre.err.message = <<>>
  /\ last.pre.err.statusCode = 0
  /\ last.pre.req.api
  /\ last.pre.env = ""
  /\ last.status = 500
  /\ ~last.body.stack

\* A toggle-like request was answered 200 after another user's save had
\* landed between its read and its own save: two overlapping toggles on one
\* post, from two users, both successful.
OverlappedLike ==
  /\ last.op = "like"
  /\ last.status = 200
  /\ last.over \notin {Anonymous, last.actor}

\* The save that ends the toggle-like request of slot r with success.
LikeSaved(r) ==
  /\ inflight[r].busy
  /\ inflight[r].op = "like"
  /\ ~inflight'[r].busy
  /\ last'.status = 200

C24_KeyedOnFollowers ==
  [][(last'.op = "follow" /\ last'.status = 200) =>
       LET actor == last'.actor
           id == last'.id
       IN IF Includes(users[id].followers, actor)
          THEN /\ users'[id].followers = Without(users[id].followers, actor)
               /\ users'[actor].following = Without(users[actor].following, id)
          ELSE /\ users'[id].followers = Append(users[id].followers, actor)
               /\ users'[actor].following = Append(users[actor].following, id)
               /\ ~Includes(users[actor].following, id)]_vars

\* B is in A's following exactly when A is in B's followers.
Symmetric ==
  \A a, b \in DOMAIN users :
    Includes(users[a].following, b) <=> Includes(users[b].followers, a)

\* C25: whenever no follow toggle is in progress the follow graph is
\* symmetric, whatever the interleaving of the overlapping toggles before.
C25_SymmetricWhenQuiet ==
  (\A r \in Slots : ~inflight[r].busy) => Symmetric

\* Where the acknowledged comment a stands in the comment list of its post
\* (0: nowhere).
PlaceOf(a) ==
  LET comments == posts[a.post].comments
      places == {k \in 1..Len(comments) :
                   comments[k] = [user |-> a.user, text |-> a.text]}
  IN IF places = {} THEN 0 ELSE CHOOSE k \in places : \A m \in places : k <= m

\* C26: a comment whose add-comment call has returned success is in the
\* comment list of its post as long as the post exists, after every comment
\* acknowledged before it and before every comment acknowledged later,
\* whatever the interleaving of add-comment and toggle-like requests.
C26_AppendOnlyInAckOrder ==
  \A j \in 1..Len(acked) :
    posts[acked[j].post].exists =>
      /\ PlaceOf(acked[j]) > 0
      /\ \A i \in 1..(j - 1) :
           acked[i].post = acked[j].post => PlaceOf(acked[i]) < PlaceOf(acked[j])

\* A create-post request of a signed-in user that the validators accept, on
\* no collection, whose tags have a category of the schema or none, and at
\* least one of them none.
UncategorisedTagRequest(body) ==
  /\ CreatePostValid(body)
  /\ body.file
  /\ body.userCollection = None
  /\ VisibilityOf(body) \in Visibilities
  /\ \A i \in 1..Len(body.tags) : body.tags[i].type \in TagTypes \cup {NoType}
  /\ \E i \in 1..Len(body.tags) : body.tags[i].type = NoType

\* C27: a create-post whose tag has a name and no category succeeds, and the
\* post is stored with that tag under the default category; the category of
\* every stored tag is one the post schema accepts.
C27_DefaultTagCategory ==
  /\ (/\ last.op = "createPost"
      /\ last.actor \in DOMAIN users
      /\ UncategorisedTagRequest(last.pre)) =>
       /\ last.status = 201
       /\ Len(posts[last.id].tags) = Len(last.pre.tags)
       /\ \A i \in 1..Len(last.pre.tags) :
            /\ posts[last.id].tags[i].name = last.pre.tags[i].name
            /\ last.pre.tags[i].type = NoType =>
                 posts[last.id].tags[i].type = "general"
  /\ \A p \in PostIds :
       posts[p].exists =>
         \A i \in 1..Len(posts[p].tags) : posts[p].tags[i].type \in TagTypes

\* The collections that exist and list post p.
Listing(p) ==
  {c \in CollIds : collections[c].exists /\ Includes(collections[c].items, p)}

\* C28: between requests the membership of posts in collections is
\* consistent in both directions: a stored post refers to collection C
\* exactly when C lists it, every collection referred to and every post
\* listed exists, and no post is listed by more than one collection.
C28_MembershipConsistent ==
  /\ \A p \in PostIds :
       posts[p].exists =>
         /\ \A c \in CollIds : (posts[p].userCollection = c) <=> (c \in Listing(p))
         /\ posts[p].userCollection # None =>
              /\ posts[p].userCollection \in CollIds
              /\ collections[posts[p].userCollection].exists
  /\ \A c \in CollIds :
       collections[c].exists =>
         \A i \in 1..Len(collections[c].items) :
           /\ collections[c].items[i] \in PostIds
           /\ posts[collections[c].items[i]].exists
  /\ \A p \in PostIds : Cardinality(Listing(p)) <= 1

\* C29: the collection reference of a stored post changes only in a request
\* of the post's owner, or when the collection it refers to is deleted by
\* that collection's owner.
C29_ReferenceChangedByOwner ==
  [][\A p \in PostIds :
       (/\ posts[p].exists
        /\ posts'[p].exists
        /\ posts'[p].userCollection # posts[p].userCollection) =>
          \/ last'.actor = posts[p].user
          \/ /\ last'.op = "deleteCollection"
             /\ last'.id = posts[p].userCollection
             /\ last'.actor = collections[last'.id].user]_vars

\* The stored state holds the change that event e, sent by the last
\* request, reports.
Persisted(e) ==
  CASE e.type = "follow" ->
         /\ Includes(users[last.id].followers, e.userId)
         /\ Includes(users[e.userId].following, last.id)
    [] e.type = "like" ->
         posts[e.postId].exists /\ Includes(posts[e.postId].likes, e.userId)
    [] e.type = "post_like" ->
         posts[e.postId].exists
           /\ (last.flag <=> Includes(posts[e.postId].likes, e.userId))
    [] e.type \in {"comment", "post_comment"} ->
         /\ posts[e.postId].exists
         /\ \E k \in 1..Len(posts[e.postId].comments) :
              posts[e.postId].comments[k].user = e.userId
    [] e.type = "new_post" ->
         posts[e.postId].exists /\ posts[e.postId].user = e.userId
    [] OTHER -> FALSE

\* C30: every event the last request sent reports a change that is stored:
\* the request's write succeeded before the event went out, and a request
\* whose write failed has sent nothing.
C30_EventsAfterWrite ==
  \A i \in 1..Len(emitted) :
    /\ last.status \in {200, 201}
    /\ Persisted(emitted[i])

====
